---- MODULE Spec2Model ----
(***************************************************************************)
(* Model of packages/connect/src/messages/verify.ts: the verify pipeline   *)
(* of a Farcaster Connect sign-in message.  One invocation of verify is    *)
(* followed from the call to its settled promise; its two suspension      *)
(* points (the await of message.verify and the await of the fid oracle)   *)
(* separate the three actions.                                             *)
(***************************************************************************)
EXTENDS Integers, Sequences, FiniteSets, TLC

\* ------------------------------------------------------------------ bounds
MaxFid == 2
\* invocations of verify in flight at once
NumCalls == 2
\* responses the mocked fetch holds
MaxResponses == 4

\* ------------------------------------------------------------ input domains
\* "N1" and "Example.com" differ from "n1" and "example.com" in case only.
Nonces == {"n1", "n2", "N1"}
Domains == {"example.com", "other.com", "Example.com"}

\* String.prototype.toLowerCase on the strings above.
Lower(str) ==
    CASE str = "N1" -> "n1"
      [] str = "Example.com" -> "example.com"
      [] OTHER -> str
Addresses == {"0xA", "0xB"}
Fids == (0 .. MaxFid) \cup {42, 43}
Defects == {"none", "bad_request", "malformed"}

\* ---------------------------------------------------------- JS value model
\* A JS number and a JS bigint holding the same integer are different values.
Num(n) == [t |-> "number", v |-> n]
Big(n) == [t |-> "bigint", v |-> n]

\* BigInt(x) for an integral number x (verify.ts:89).
BigIntOf(x) == [t |-> "bigint", v |-> x.v]

\* a !== b on primitives: no coercion, type and value both compared.
StrictNe(a, b) == ~(a.t = b.t /\ a.v = b.v)

\* Number.prototype.toString / BigInt.prototype.toString, one token per digit.
Digit(d) == CASE d = 0 -> "0" [] d = 1 -> "1" [] d = 2 -> "2" [] d = 3 -> "3"
              [] d = 4 -> "4" [] d = 5 -> "5" [] d = 6 -> "6" [] d = 7 -> "7"
              [] d = 8 -> "8" [] d = 9 -> "9"

RECURSIVE Digits(_)
Digits(n) == IF n < 10 THEN <<Digit(n)>> ELSE Digits(n \div 10) \o <<Digit(n % 10)>>

ToStr(x) == Digits(x.v)

\* Object helpers: an object is a function from its own property names.
Spread(a, b) == [k \in DOMAIN a \cup DOMAIN b |-> IF k \in DOMAIN b THEN b[k] ELSE a[k]]
Omit(o, f) == [k \in DOMAIN o \ {f} |-> o[k]]
Assign(o, f, x) == [k \in DOMAIN o \cup {f} |-> IF k = f THEN x ELSE o[k]]

\* ------------------------------------------------------- neverthrow results
\* r.andThen(f) is written out where it is used: f(r.value) if r is ok, else r.
Ok(x) == [ok |-> TRUE, value |-> x]
Err(e) == [ok |-> FALSE, error |-> e]

\* A settled promise handed to ResultAsync.fromPromise with an error mapper.
Resolved(x) == [settled |-> "resolved", value |-> x]
Rejected(e) == [settled |-> "rejected", reason |-> e]

\* Error texts are token sequences, so that interpolated values stay visible.
ConnectError(kind, message) == [kind |-> kind, message |-> message]
SiweError(type, expected, received) == [type |-> type, expected |-> expected, received |-> received]

FromPromise(p, kind) ==
    IF p.settled = "resolved" THEN Ok(p.value) ELSE Err(ConnectError(kind, p.reason))

\* ------------------------------------------------------------ the messages
FidResource(n) == [kind |-> "fid", fid |-> n]
OtherResource == [kind |-> "other", fid |-> 0]
ResourceLists ==
    {<<>>, <<OtherResource>>}
        \cup {<<FidResource(n)>> : n \in Fids}
        \cup {<<OtherResource, FidResource(n)>> : n \in Fids}

\* What the caller passes as `message`: the fields the pipeline reads, and
\* `defect`, the verdict structural validation reaches on it.
Messages ==
    [defect : Defects, nonce : Nonces, domain : Domains,
     address : Addresses, resources : ResourceLists]

\* options: omitted (the default { getFid: voidVerifyFid }) or supplied.
Options == {"omitted", "supplied"}

\* ------------------------------------------------ ./validate (not in src)
validate(message) ==
    IF message.defect = "none"
    THEN Ok(message)
    ELSE Err(ConnectError(message.defect, <<"Invalid message">>))

FidEntries(data) == {i \in 1 .. Len(data.resources) : data.resources[i].kind = "fid"}

parseResources(data) ==
    IF FidEntries(data) = {}
    THEN Err(ConnectError("malformed", <<"No fid resource provided">>))
    ELSE LET i == CHOOSE j \in FidEntries(data) : \A k \in FidEntries(data) : j <= k
         IN  Ok([fid |-> Num(data.resources[i].fid)])

\* ------------------------------------------------------------- verify.ts
\* Mutant: the nonce comparison is dropped.
validateNonce_Unchecked(message, nonce) == Ok(message)

validateNonce(message, nonce) ==
    IF message.nonce # nonce
    THEN Err(ConnectError("unauthorized", <<"Invalid nonce">>))
    ELSE Ok(message)

\* Mutant: the domain is compared without regard to case.
validateDomain_IgnoresCase(message, domain) ==
    IF Lower(message.domain) # Lower(domain)
    THEN Err(ConnectError("unauthorized", <<"Invalid domain">>))
    ELSE Ok(message)

\* Mutant: the domain check reports the nonce check's message.
validateDomain_WrongMessage(message, domain) ==
    IF message.domain # domain
    THEN Err(ConnectError("unauthorized", <<"Invalid nonce">>))
    ELSE Ok(message)

validateDomain(message, domain) ==
    IF message.domain # domain
    THEN Err(ConnectError("unauthorized", <<"Invalid domain">>))
    ELSE Ok(message)

\* verify.ts:32-34, the synchronous validation chain.
Validation(nonce, domain, message) ==
    LET structure == validate(message)
        nonced == IF structure.ok THEN validateNonce(structure.value, nonce) ELSE structure
    IN  IF nonced.ok THEN validateDomain(nonced.value, domain) ELSE nonced

\* Mutant: a failed verification call is reported as an outage.
verifySiweMessage_Unavailable(settlement) == FromPromise(settlement, "unavailable")

\* verify.ts:71-79, applied to the settled promise of message.verify.
verifySiweMessage(settlement) == FromPromise(settlement, "unauthorized")

mergeResources(response) ==
    LET resources == parseResources(response.data)
    IN  IF resources.ok THEN Ok(Spread(resources.value, response)) ELSE resources

\* siwe.value.error?.type ?? fallback  (verify.ts:41, 48)
ErrorTypeOr(o, fallback) == IF "error" \in DOMAIN o THEN o.error.type ELSE fallback

OwnershipError(signer, response, fid) ==
    SiweError(<<"Invalid resource: signer ", signer, " does not own fid ">>
                  \o ToStr(response.fid) \o <<".">>,
              ToStr(response.fid),
              ToStr(fid))

\* Mutant: a rejected oracle is treated as a mismatch instead of an error.
verifyFidOwner_RejectIsMismatch(h, ref, settlement) ==
    LET response == h[ref]
        signer == response.data.address
    IN  IF settlement.settled = "rejected" \/ StrictNe(settlement.value, BigIntOf(response.fid))
        THEN [result |-> Ok(ref),
              heap |-> [h EXCEPT ![ref] =
                          Assign(Assign(response, "success", FALSE), "error",
                                 SiweError(<<"Invalid resource">>, <<>>, <<>>))],
              compared |-> settlement.settled = "resolved"]
        ELSE [result |-> Ok(ref), heap |-> h, compared |-> TRUE]

\* Mutant: on a mismatch the error is attached but success is left true.
verifyFidOwner_KeepsSuccess(h, ref, settlement) ==
    LET awaited == FromPromise(settlement, "unavailable")
        response == h[ref]
        signer == response.data.address
    IN  IF ~awaited.ok
        THEN [result |-> awaited, heap |-> h, compared |-> FALSE]
        ELSE IF StrictNe(awaited.value, BigIntOf(response.fid))
             THEN [result |-> Ok(ref),
                   heap |-> [h EXCEPT ![ref] =
                               Assign(response, "error",
                                      OwnershipError(signer, response, awaited.value))],
                   compared |-> TRUE]
             ELSE [result |-> Ok(ref), heap |-> h, compared |-> TRUE]

\* Mutant: a resolved fid of zero is taken for "no fid" and never matches.
verifyFidOwner_ZeroIsAbsent(h, ref, settlement) ==
    LET awaited == FromPromise(settlement, "unavailable")
        response == h[ref]
        signer == response.data.address
    IN  IF ~awaited.ok
        THEN [result |-> awaited, heap |-> h, compared |-> FALSE]
        ELSE IF awaited.value.v = 0 \/ StrictNe(awaited.value, BigIntOf(response.fid))
             THEN [result |-> Ok(ref),
                   heap |-> [h EXCEPT ![ref] =
                               Assign(Assign(response, "success", FALSE), "error",
                                      OwnershipError(signer, response, awaited.value))],
                   compared |-> TRUE]
             ELSE [result |-> Ok(ref), heap |-> h, compared |-> TRUE]

\* Mutant: the mismatch is recorded on a copy of the outcome, which is returned.
verifyFidOwner_Copies(h, ref, settlement) ==
    LET awaited == FromPromise(settlement, "unavailable")
        response == h[ref]
        signer == response.data.address
    IN  IF ~awaited.ok
        THEN [result |-> awaited, heap |-> h, compared |-> FALSE]
        ELSE IF StrictNe(awaited.value, BigIntOf(response.fid))
             THEN [result |-> Ok(Len(h) + 1),
                   heap |-> Append(h, Assign(Assign(response, "success", FALSE), "error",
                                             OwnershipError(signer, response, awaited.value))),
                   compared |-> TRUE]
             ELSE [result |-> Ok(ref), heap |-> h, compared |-> TRUE]

\* verify.ts:86-98: what verifyFidOwner does once the oracle's promise has
\* settled.  `h` is the heap, `ref` the outcome object passed in; the
\* outcome is mutated in place and the same reference is handed back.
verifyFidOwner(h, ref, settlement) ==
    LET awaited == FromPromise(settlement, "unavailable")
        response == h[ref]
        signer == response.data.address
    IN  IF ~awaited.ok
        THEN [result |-> awaited, heap |-> h, compared |-> FALSE]
        ELSE IF StrictNe(awaited.value, BigIntOf(response.fid))
             THEN [result |-> Ok(ref),
                   heap |-> [h EXCEPT ![ref] =
                               Assign(Assign(response, "success", FALSE), "error",
                                      OwnershipError(signer, response, awaited.value))],
                   compared |-> TRUE]
             ELSE [result |-> Ok(ref), heap |-> h, compared |-> TRUE]

\* Mutant: the outcome is returned with its error field.
StripError_Keeps(o) == o

\* verify.ts:51: const { error, ...response } = fid.value
StripError(o) == Omit(o, "error")

\* --------------------------------------------------------- collaborators
\* message.verify({signature}, {provider, suppressExceptions: true})
SiweFailures == {<<"Signature does not match address of the message.">>, <<"Expired message.">>}

SiweSettlements(message) ==
    {Resolved([success |-> TRUE, data |-> message])}
        \cup {Resolved([success |-> TRUE, data |-> message,
                        error |-> SiweError(<<"stale">>, <<>>, <<>>)])}
        \cup {Resolved([success |-> FALSE, data |-> message,
                        error |-> SiweError(t, <<>>, <<>>)]) : t \in SiweFailures}
        \cup {Resolved([success |-> FALSE, data |-> message])}
        \cup {Rejected(<<"provider call failed">>)}

\* Mutant: the default oracle answers "no fid" instead of rejecting.
voidVerifyFid_ResolvesZero == Resolved(Big(0))

\* verify.ts:16
voidVerifyFid == Rejected(<<"Not implemented: Must provide an fid verifier">>)

\* getFid(custody): what the call itself does, then how its promise settles.
OracleCalls(options) ==
    IF options = "omitted" THEN {"promise"} ELSE {"promise", "throws"}

OracleSettlements(options) ==
    IF options = "omitted"
    THEN {voidVerifyFid}
    ELSE {Resolved(Big(n)) : n \in Fids} \cup {Rejected(<<"rpc failed">>)}

OracleThrown == <<"oracle threw">>

\* ------------------------------------------------------------------ state
VARIABLES
    pc,            \* where the invocation of verify stands
    args,          \* its arguments: nonce, domain, message, options
    heap,          \* the outcome objects it has created, by reference
    siweValue,     \* siwe.value: a reference into heap (0: not yet bound)
    returned,      \* the promise verify returned to its caller
    siweSettled,   \* how the promise of message.verify settled
    oracleSettled, \* how the promise of getFid settled
    log,           \* the calls made so far, in order
    calls,         \* concurrent invocations of verify: the frame of each
    watch          \* the invocation of client.watchStatus in the status test

vars == <<pc, args, heap, siweValue, returned, siweSettled, oracleSettled, log, calls, watch>>

Pending == [settled |-> "pending"]

\* The frame of one activation of verify: its position, its parameters, its
\* local binding `siwe`, the promise it returned, and what it has seen of its
\* collaborators.
Calls == 1 .. NumCalls

IdleFrame ==
    [pc |-> "idle", args |-> <<>>, siweValue |-> 0, returned |-> Pending,
     siweSettled |-> Pending, oracleCall |-> "none", oracleSettled |-> Pending,
     log |-> <<>>]

IdleWatch == [pc |-> "idle", mocked |-> <<>>, fetched |-> 0, callbacks |-> 0, result |-> <<>>]

Init ==
    /\ calls = [c \in Calls |-> IdleFrame]
    /\ watch = IdleWatch
    /\ pc = "idle"
    /\ args = <<>>
    /\ heap = <<>>
    /\ siweValue = 0
    /\ returned = Pending
    /\ siweSettled = Pending
    /\ oracleSettled = Pending
    /\ log = <<>>

\* return x from the async function: its promise resolves with x.
Return(x) ==
    /\ returned' = Resolved(x)
    /\ pc' = "done"

\* an exception leaves the async function: its promise rejects.
Throw(e) ==
    /\ returned' = Rejected(e)
    /\ pc' = "done"

\* verify.ts:31-37: the call, up to the first await.
Invoke(nonce, domain, message, options) ==
    /\ args' = [nonce |-> nonce, domain |-> domain, message |-> message, options |-> options]
    /\ LET valid == Validation(nonce, domain, message)
       IN  IF ~valid.ok
           THEN /\ Return(Err(valid.error))
                /\ log' = log
           ELSE /\ pc' = "awaitSiwe"
                /\ log' = Append(log, "message.verify")
                /\ returned' = returned
    /\ UNCHANGED <<heap, siweValue, siweSettled, oracleSettled, calls, watch>>

\* verify.ts:37-45: message.verify has settled; the continuation runs up to
\* the call of getFid inside verifyFidOwner (verify.ts:85-86).
SiweContinue(settlement, oracleCall) ==
    /\ siweSettled' = settlement
    /\ LET awaited == verifySiweMessage(settlement)
           siwe == IF awaited.ok THEN mergeResources(awaited.value) ELSE awaited
           merged == IF awaited.ok THEN <<"mergeResources">> ELSE <<>>
       IN  IF ~siwe.ok
           THEN /\ Return(Err(siwe.error))
                /\ log' = log \o merged
                /\ UNCHANGED <<heap, siweValue>>
           ELSE /\ heap' = Append(heap, siwe.value)
                /\ siweValue' = Len(heap) + 1
                /\ IF ~siwe.value.success
                   THEN /\ Return(Err(ConnectError("unauthorized",
                                  ErrorTypeOr(siwe.value, <<"Failed to verify SIWE message">>))))
                        /\ log' = log \o merged
                   ELSE /\ log' = (log \o merged) \o <<"getFid">>
                        /\ IF oracleCall = "throws"
                           THEN Throw(OracleThrown)
                           ELSE /\ pc' = "awaitFid"
                                /\ returned' = returned
    /\ UNCHANGED <<args, oracleSettled, calls, watch>>

\* Mutant: a rejected oracle is asked again instead of being reported.
FidContinue_Retries(settlement) ==
    /\ oracleSettled' = settlement
    /\ LET owner == verifyFidOwner(heap, siweValue, settlement)
           fid == owner.result
       IN  /\ heap' = owner.heap
           /\ log' = IF owner.compared THEN Append(log, "compare") ELSE log
           /\ IF ~fid.ok
              THEN pc' = "awaitFid" /\ returned' = returned
              ELSE IF ~owner.heap[fid.value].success
                   THEN Return(Err(ConnectError("unauthorized",
                               ErrorTypeOr(owner.heap[siweValue],
                                           <<"Failed to validate fid owner">>))))
                   ELSE Return(Ok(StripError(owner.heap[fid.value])))
    /\ UNCHANGED <<args, siweValue, siweSettled, calls, watch>>

\* verify.ts:45-52 with verifyFidOwner's continuation (verify.ts:86-98):
\* the oracle's promise has settled.
FidContinue(settlement) ==
    /\ oracleSettled' = settlement
    /\ LET owner == verifyFidOwner(heap, siweValue, settlement)
           fid == owner.result
       IN  /\ heap' = owner.heap
           /\ log' = IF owner.compared THEN Append(log, "compare") ELSE log
           /\ IF ~fid.ok
              THEN Return(Err(fid.error))
              ELSE IF ~owner.heap[fid.value].success
                   THEN Return(Err(ConnectError("unauthorized",
                               ErrorTypeOr(owner.heap[siweValue],
                                           <<"Failed to validate fid owner">>))))
                   ELSE Return(Ok(StripError(owner.heap[fid.value])))
    /\ UNCHANGED <<args, siweValue, siweSettled, calls, watch>>

Call ==
    /\ pc = "idle"
    /\ \E nonce \in Nonces, domain \in Domains, message \in Messages, options \in Options :
           Invoke(nonce, domain, message, options)

SiweSettle ==
    /\ pc = "awaitSiwe"
    /\ \E settlement \in SiweSettlements(args.message), oracleCall \in OracleCalls(args.options) :
           SiweContinue(settlement, oracleCall)

FidSettle ==
    /\ pc = "awaitFid"
    /\ \E settlement \in OracleSettlements(args.options) : FidContinue(settlement)

Next == Call \/ SiweSettle \/ FidSettle

Spec == Init /\ [][Next]_vars

\* The promises of message.verify and of getFid settle at last, and the
\* event loop then runs the continuation waiting on them.
FairSpec == Spec /\ WF_vars(SiweSettle) /\ WF_vars(FidSettle)

\* ------------------------------------------------ concurrent invocations
\* Several activations of verify share one heap and interleave at their
\* awaits; a continuation runs to its next await or return without
\* interruption (one turn of the event loop).

\* Mutant: the merged outcome is one module-level object, reused by every call.
NewObject_Singleton(h) == 1

\* verify.ts:103: the object literal { ...resources, ...response } is a new
\* object, so its reference is one the heap does not hold yet.
NewObject(h) == Len(h) + 1

Store(h, ref, o) == IF ref = Len(h) + 1 THEN Append(h, o) ELSE [h EXCEPT ![ref] = o]

\* verify.ts:31-37 on a frame.
verifyCall(nonce, domain, message, options) ==
    LET valid == Validation(nonce, domain, message)
        called == [IdleFrame EXCEPT !.args = [nonce |-> nonce, domain |-> domain,
                                              message |-> message, options |-> options]]
    IN  IF ~valid.ok
        THEN [called EXCEPT !.pc = "done", !.returned = Resolved(Err(valid.error))]
        ELSE [called EXCEPT !.pc = "awaitSiwe", !.log = <<"message.verify">>]

\* verify.ts:37-45 on a frame f and the heap h.
verifyAfterSiwe(f, h, settlement, oracleCall) ==
    LET awaited == verifySiweMessage(settlement)
        siwe == IF awaited.ok THEN mergeResources(awaited.value) ELSE awaited
        merged == IF awaited.ok THEN <<"mergeResources">> ELSE <<>>
        seen == [f EXCEPT !.siweSettled = settlement, !.log = f.log \o merged]
        ref == NewObject(h)
    IN  IF ~siwe.ok
        THEN [frame |-> [seen EXCEPT !.pc = "done", !.returned = Resolved(Err(siwe.error))],
              heap |-> h]
        ELSE IF ~siwe.value.success
        THEN [frame |-> [seen EXCEPT !.pc = "done", !.siweValue = ref,
                            !.returned = Resolved(Err(ConnectError("unauthorized",
                                ErrorTypeOr(siwe.value, <<"Failed to verify SIWE message">>))))],
              heap |-> Store(h, ref, siwe.value)]
        ELSE IF oracleCall = "throws"
        THEN [frame |-> [seen EXCEPT !.pc = "done", !.siweValue = ref,
                            !.oracleCall = oracleCall, !.log = seen.log \o <<"getFid">>,
                            !.returned = Rejected(OracleThrown)],
              heap |-> Store(h, ref, siwe.value)]
        ELSE [frame |-> [seen EXCEPT !.pc = "awaitFid", !.siweValue = ref,
                            !.oracleCall = oracleCall, !.log = seen.log \o <<"getFid">>],
              heap |-> Store(h, ref, siwe.value)]

\* verify.ts:45-52 on a frame f and the heap h.
verifyAfterFid(f, h, settlement) ==
    LET owner == verifyFidOwner(h, f.siweValue, settlement)
        fid == owner.result
        seen == [f EXCEPT !.oracleSettled = settlement, !.pc = "done",
                          !.log = IF owner.compared THEN Append(f.log, "compare") ELSE f.log]
    IN  [frame |->
            [seen EXCEPT !.returned =
                IF ~fid.ok
                THEN Resolved(Err(fid.error))
                ELSE IF ~owner.heap[fid.value].success
                     THEN Resolved(Err(ConnectError("unauthorized",
                              ErrorTypeOr(owner.heap[f.siweValue],
                                          <<"Failed to validate fid owner">>))))
                     ELSE Resolved(Ok(StripError(owner.heap[fid.value])))],
         heap |-> owner.heap]

\* The inputs of the concurrent invocations: valid structure and domain, so
\* that the invocations meet at the awaits.
ConcFids == {0, 1}
ConcMessages ==
    {m \in Messages : /\ m.defect = "none" /\ m.domain = "example.com" /\ m.address = "0xA"
                      /\ \E n \in ConcFids : m.resources = <<FidResource(n)>>}
ConcSiweSettlements(message) ==
    {Resolved([success |-> TRUE, data |-> message]),
     Resolved([success |-> FALSE, data |-> message,
               error |-> SiweError(<<"Expired message.">>, <<>>, <<>>)]),
     Rejected(<<"provider call failed">>)}
ConcOracleSettlements == {Resolved(Big(n)) : n \in ConcFids} \cup {Rejected(<<"rpc failed">>)}

ConcCall ==
    \E c \in Calls, nonce \in Nonces, message \in ConcMessages :
        /\ calls[c].pc = "idle"
        /\ calls' = [calls EXCEPT ![c] = verifyCall(nonce, "example.com", message, "supplied")]
        /\ UNCHANGED <<pc, args, heap, siweValue, returned, siweSettled, oracleSettled, log, watch>>

ConcSiweSettle ==
    \E c \in Calls :
        /\ calls[c].pc = "awaitSiwe"
        /\ \E settlement \in ConcSiweSettlements(calls[c].args.message),
              oracleCall \in OracleCalls(calls[c].args.options) :
               LET after == verifyAfterSiwe(calls[c], heap, settlement, oracleCall)
               IN  /\ calls' = [calls EXCEPT ![c] = after.frame]
                   /\ heap' = after.heap
        /\ UNCHANGED <<pc, args, siweValue, returned, siweSettled, oracleSettled, log, watch>>

ConcFidSettle ==
    \E c \in Calls :
        /\ calls[c].pc = "awaitFid"
        /\ \E settlement \in ConcOracleSettlements :
               LET after == verifyAfterFid(calls[c], heap, settlement)
               IN  /\ calls' = [calls EXCEPT ![c] = after.frame]
                   /\ heap' = after.heap
        /\ UNCHANGED <<pc, args, siweValue, returned, siweSettled, oracleSettled, log, watch>>

ConcNext == ConcCall \/ ConcSiweSettle \/ ConcFidSettle

ConcSpec == Init /\ [][ConcNext]_vars

\* What the invocation with frame f returns when it runs alone, on a heap of
\* its own, with the same arguments and the same collaborator responses.
Alone(f) ==
    LET called == verifyCall(f.args.nonce, f.args.domain, f.args.message, f.args.options)
        start == [frame |-> called, heap |-> <<>>]
        second == IF called.pc = "awaitSiwe" /\ f.siweSettled # Pending
                  THEN verifyAfterSiwe(called, <<>>, f.siweSettled, f.oracleCall)
                  ELSE start
        third == IF second.frame.pc = "awaitFid" /\ f.oracleSettled # Pending
                 THEN verifyAfterFid(second.frame, second.heap, f.oracleSettled)
                 ELSE second
    IN  third.frame

\* ------------------------------------------------- the status test
\* JSON.stringify and response.json() on the two bodies the relay sends.
Stringify(o) ==
    IF o.state = "pending" THEN "{\"state\":\"pending\"}" ELSE "{\"state\":\"completed\"}"
ParseJson(text) ==
    IF text = "{\"state\":\"pending\"}" THEN [state |-> "pending"] ELSE [state |-> "completed"]

\* new Response(body, { status }); the status is 200 when none is given.
Response(body, status) == [status |-> status, body |-> body]
PendingResponse == Response(Stringify([state |-> "pending"]), 202)
CompletedResponse == Response(Stringify([state |-> "completed"]), 200)
StatusResponses == {PendingResponse, CompletedResponse, Response(Stringify([state |-> "pending"]), 200)}

\* jest.spyOn(global, "fetch").mockResolvedValueOnce(...)...: the responses
\* fetch will resolve with, in order; the relay answers non-pending at last.
MockedFetches ==
    {q \in UNION {[1 .. n -> StatusResponses] : n \in 1 .. MaxResponses} :
        \E i \in 1 .. Len(q) : q[i].status # 202}

\* Mutant: onResponse is called for every response, the final one included.
watchPoll_CallbackAlways(w) ==
    LET response == w.mocked[w.fetched + 1]
    IN  IF response.status = 202
        THEN [w EXCEPT !.fetched = @ + 1, !.callbacks = @ + 1]
        ELSE [w EXCEPT !.fetched = @ + 1, !.callbacks = @ + 1, !.pc = "done",
                       !.result = [response |-> response, data |-> ParseJson(response.body)]]

\* One round of client.watchStatus (clients/createAppClient, not in src):
\* fetch the channel status; a 202 goes to onResponse and the poll goes on,
\* any other response is returned with its parsed body.
watchPoll(w) ==
    LET response == w.mocked[w.fetched + 1]
    IN  IF response.status = 202
        THEN [w EXCEPT !.fetched = @ + 1, !.callbacks = @ + 1]
        ELSE [w EXCEPT !.fetched = @ + 1, !.pc = "done",
                       !.result = [response |-> response, data |-> ParseJson(response.body)]]

WatchStart ==
    /\ watch.pc = "idle"
    /\ \E q \in MockedFetches : watch' = [IdleWatch EXCEPT !.pc = "polling", !.mocked = q]
    /\ UNCHANGED <<pc, args, heap, siweValue, returned, siweSettled, oracleSettled, log, calls>>

WatchPoll ==
    /\ watch.pc = "polling"
    /\ watch' = watchPoll(watch)
    /\ UNCHANGED <<pc, args, heap, siweValue, returned, siweSettled, oracleSettled, log, calls>>

WatchNext == WatchStart \/ WatchPoll

WatchSpec == Init /\ [][WatchNext]_vars

\* ================================================================ claims
Done == pc = "done"
ReturnedOk == returned.settled = "resolved" /\ returned.value.ok
ReturnedErr == returned.settled = "resolved" /\ ~returned.value.ok
ReturnedKind(kind) == ReturnedErr /\ returned.value.error.kind = kind
Count(event) == Cardinality({i \in 1 .. Len(log) : log[i] = event})

StructureValid == args.message.defect = "none"
NonceMatches == args.message.nonce = args.nonce
DomainMatches == args.message.domain = args.domain
SiweSucceeded == siweSettled.settled = "resolved" /\ siweSettled.value.success
ResourcesParsed == siweValue # 0
\* the outcome object of this invocation, and the fid it claims
Outcome == heap[siweValue]
ClaimedFid == Outcome.fid.v
OracleResolved == oracleSettled.settled = "resolved"
OracleRejected == oracleSettled.settled = "rejected"
\* getFid was called and the invocation ended without its promise settling:
\* the call itself threw.
OracleThrew == Done /\ Count("getFid") = 1 /\ oracleSettled = Pending
OwnerMatches == OracleResolved /\ oracleSettled.value.v = ClaimedFid
Mentions(message, part) ==
    \E i \in 1 .. Len(message) : SubSeq(message, i, i + Len(part) - 1) = part

AllChecksHeld ==
    /\ StructureValid
    /\ NonceMatches
    /\ DomainMatches
    /\ SiweSucceeded
    /\ ResourcesParsed
    /\ OwnerMatches

\* C1: verify returns ok only if structural validation, nonce, domain, the
\* signature outcome, resource parsing and the ownership comparison all
\* succeeded, and every finished invocation in which one of them failed has
\* returned an error result.
C1_OkOnlyIfAllChecks ==
    Done => /\ ReturnedOk => AllChecksHeld
            /\ ~AllChecksHeld => ReturnedErr

\* C2: the promise verify returns always resolves to a result value, never
\* rejects, and an oracle that throws when called is reported as unavailable.
C2_NeverRejects ==
    Done => /\ returned.settled = "resolved"
            /\ OracleThrew => ReturnedKind("unavailable")

\* C3: when the oracle's promise rejects, verify returns unavailable, no fid
\* comparison is made, and the outcome keeps the success flag and the error
\* field the signature step gave it.
C3_OracleRejects ==
    (Done /\ OracleRejected) =>
        /\ ReturnedKind("unavailable")
        /\ Count("compare") = 0
        /\ Outcome.success = siweSettled.value.success
        /\ ("error" \in DOMAIN Outcome) = ("error" \in DOMAIN siweSettled.value)
        /\ "error" \in DOMAIN Outcome => Outcome.error = siweSettled.value.error

C3_Witness ==
    /\ Done /\ OracleRejected /\ args.options = "supplied"
    /\ "error" \in DOMAIN Outcome

\* C4: a valid signature whose oracle resolves to another fid than the
\* claimed one ends in unauthorized, with the oracle called exactly once.
C4_MismatchUnauthorized ==
    (Done /\ SiweSucceeded /\ ResourcesParsed /\ OracleResolved /\ ~OwnerMatches) =>
        /\ ReturnedKind("unauthorized")
        /\ Count("getFid") = 1

C4_Witness ==
    /\ Done /\ SiweSucceeded /\ ResourcesParsed /\ OracleResolved /\ ~OwnerMatches
    /\ ClaimedFid = 42 /\ oracleSettled.value.v = 43

\* C5 as stated: every message whose nonce differs from the expected nonce
\* ends in unauthorized.
C5_Original ==
    (Done /\ ~NonceMatches) => ReturnedKind("unauthorized")

\* C5 as amended: every message that passes structural validation and whose
\* nonce differs from the expected nonce ends in unauthorized "Invalid nonce",
\* with neither the signature verifier nor the oracle consulted.
C5_NonceMismatch ==
    (Done /\ StructureValid /\ ~NonceMatches) =>
        /\ returned = Resolved(Err(ConnectError("unauthorized", <<"Invalid nonce">>)))
        /\ log = <<>>

C5_Witness == Done /\ StructureValid /\ ~NonceMatches /\ DomainMatches

\* C6: a structurally valid message with matching nonce and another domain
\* ends in unauthorized "Invalid domain", and neither message.verify nor the
\* oracle has been called.
C6_DomainMismatch ==
    (Done /\ StructureValid /\ NonceMatches /\ ~DomainMatches) =>
        /\ returned = Resolved(Err(ConnectError("unauthorized", <<"Invalid domain">>)))
        /\ Count("message.verify") = 0
        /\ Count("getFid") = 0

C6_Witness ==
    /\ Done /\ StructureValid /\ NonceMatches
    /\ args.message.domain = "other.com" /\ args.domain = "example.com"

\* C7: the signature step's failure is reported before the resource merge's:
\* a rejected verifier gives unauthorized with its reason, an outcome with
\* success false gives unauthorized with the outcome's error detail, and
\* malformed is reported only for an outcome with success true.
C7_SignatureBeforeMerge ==
    (Done /\ siweSettled # Pending) =>
        /\ siweSettled.settled = "rejected" =>
               returned = Resolved(Err(ConnectError("unauthorized", siweSettled.reason)))
        /\ (siweSettled.settled = "resolved" /\ ~siweSettled.value.success) =>
               /\ ReturnedKind("unauthorized")
               /\ "error" \in DOMAIN siweSettled.value =>
                      returned.value.error.message = siweSettled.value.error.type
        /\ ReturnedKind("malformed") => SiweSucceeded

\* C8: on an ownership mismatch the unauthorized error's message mentions the
\* claimed fid and the fid the oracle resolved.
C8_MessageMentionsBothFids ==
    (Done /\ SiweSucceeded /\ ResourcesParsed /\ OracleResolved /\ ~OwnerMatches) =>
        /\ ReturnedKind("unauthorized")
        /\ Mentions(returned.value.error.message, Digits(ClaimedFid))
        /\ Mentions(returned.value.error.message, Digits(oracleSettled.value.v))

\* C9: a correctly signed message with matching nonce and domain whose oracle
\* resolves to the claimed fid yields ok with success true, the message's
\* address and domain in data, the claimed fid, and no error field.
C9_RoundTrip ==
    (Done /\ StructureValid /\ NonceMatches /\ DomainMatches /\ SiweSucceeded
          /\ ResourcesParsed /\ OwnerMatches) =>
        /\ ReturnedOk
        /\ DOMAIN returned.value.value = {"success", "data", "fid"}
        /\ returned.value.value.success = TRUE
        /\ returned.value.value.data.address = args.message.address
        /\ returned.value.value.data.domain = args.message.domain
        /\ returned.value.value.fid = Num(oracleSettled.value.v)

C9_Witness ==
    /\ Done /\ ReturnedOk /\ args.nonce = "n1" /\ args.domain = "example.com"
    /\ returned.value.value.fid = Num(42)
    /\ "error" \in DOMAIN siweSettled.value

\* C10: once the oracle has resolved, the ownership check matches exactly
\* when the resolved value equals the claimed fid, zero included.
C10_ExactEquality ==
    (Done /\ OracleResolved) =>
        /\ Count("compare") = 1
        /\ Outcome.success = (oracleSettled.value.v = ClaimedFid)
        /\ ReturnedOk = (oracleSettled.value.v = ClaimedFid)

C10_Witness ==
    /\ Done /\ OracleResolved /\ ReturnedOk
    /\ ClaimedFid = 0 /\ oracleSettled.value.v = 0

\* C11: with options omitted the default oracle rejects, so verify never
\* returns ok, and every invocation that passes validation, nonce, domain,
\* signature and resource merge ends in unavailable.
C11_DefaultOracleRejects ==
    (Done /\ args.options = "omitted") =>
        /\ ~ReturnedOk
        /\ (SiweSucceeded /\ ResourcesParsed) =>
               returned = Resolved(Err(ConnectError("unavailable",
                              <<"Not implemented: Must provide an fid verifier">>)))

C11_Witness ==
    /\ Done /\ args.options = "omitted" /\ SiweSucceeded /\ ResourcesParsed
    /\ OracleRejected /\ ReturnedKind("unavailable")

\* C12: concurrent invocations do not affect one another: each stands where
\* it would stand, and has returned what it would have returned, had it run
\* alone with its own arguments and collaborator responses; no two
\* invocations hold the same outcome object, and each one's outcome object
\* carries its own message.
C12_Reentrant ==
    \A c \in Calls :
        calls[c].pc # "idle" =>
            /\ calls[c].pc = Alone(calls[c]).pc
            /\ calls[c].returned = Alone(calls[c]).returned
            /\ calls[c].siweValue # 0 =>
                   /\ heap[calls[c].siweValue].data = calls[c].args.message
                   /\ \A d \in Calls \ {c} : calls[d].siweValue # calls[c].siweValue

\* two invocations were suspended at the oracle together with different
\* claims; one has since failed its ownership check, the other has succeeded
C12_Witness ==
    \E c, d \in Calls :
        /\ c # d
        /\ calls[c].pc = "done" /\ calls[d].pc = "done"
        /\ calls[c].log = <<"message.verify", "mergeResources", "getFid", "compare">>
        /\ calls[d].log = calls[c].log
        /\ calls[c].returned.settled = "resolved" /\ calls[c].returned.value.ok
        /\ calls[d].returned.settled = "resolved" /\ ~calls[d].returned.value.ok
        /\ calls[c].args.message # calls[d].args.message

\* number of leading 202 responses of the mocked fetch
LeadingPending(q) == CHOOSE n \in 0 .. Len(q) :
    /\ \A i \in 1 .. n : q[i].status = 202
    /\ n < Len(q) => q[n + 1].status # 202

Pipeline == <<"message.verify", "mergeResources", "getFid", "compare">>

\* C14: the steps of an invocation run one after another: message.verify is
\* called at most once and only after validation, nonce and domain passed;
\* getFid is called at most once, only after message.verify settled with
\* success true and the merge succeeded, and never while message.verify is
\* pending.
C14_StrictlySequential ==
    /\ Len(log) <= Len(Pipeline)
    /\ \A i \in 1 .. Len(log) : log[i] = Pipeline[i]
    /\ Count("message.verify") <= 1 /\ Count("getFid") <= 1
    /\ Count("message.verify") = 1 => StructureValid /\ NonceMatches /\ DomainMatches
    /\ Count("getFid") = 1 =>
           /\ SiweSucceeded /\ ResourcesParsed
           /\ Count("message.verify") = 1 /\ Count("mergeResources") = 1
    /\ siweSettled = Pending => Count("getFid") = 0

C14_Witness == Done /\ log = Pipeline /\ ReturnedOk

\* C15: when the promise of message.verify rejects, verify returns
\* unauthorized wrapping the rejection's error, no resources are merged and
\* the oracle is never called.
C15_VerifierRejects ==
    (Done /\ siweSettled.settled = "rejected") =>
        /\ returned = Resolved(Err(ConnectError("unauthorized", siweSettled.reason)))
        /\ Count("mergeResources") = 0
        /\ Count("getFid") = 0
        /\ siweValue = 0

C15_Witness ==
    /\ Done /\ siweSettled = Rejected(<<"provider call failed">>)
    /\ ReturnedKind("unauthorized") /\ log = <<"message.verify">>

OwnershipText(address, claimed) ==
    <<"Invalid resource: signer ", address, " does not own fid ">> \o Digits(claimed) \o <<".">>

\* C16: whenever the oracle resolves, verifyFidOwner returns ok with the
\* outcome it was given; on a mismatch that outcome has success false and an
\* error naming the signer address and the claimed fid, with data and fid
\* untouched; on a match the outcome is unchanged.
C16_OwnerVerifierFrame ==
    [][(pc = "awaitFid" /\ oracleSettled'.settled = "resolved") =>
          LET before == heap[siweValue]
              after == heap'[siweValue]
          IN  /\ verifyFidOwner(heap, siweValue, oracleSettled').result = Ok(siweValue)
              /\ Len(heap') = Len(heap)
              /\ IF oracleSettled'.value.v # before.fid.v
                 THEN /\ after.success = FALSE
                      /\ after.error.type = OwnershipText(before.data.address, before.fid.v)
                      /\ after.data = before.data
                      /\ after.fid = before.fid
                 ELSE after = before]_vars

C16_Witness ==
    /\ Done /\ OracleResolved /\ ~OwnerMatches
    /\ Outcome.success = FALSE
    /\ Outcome.error.type = OwnershipText("0xB", 1)

\* C17: on an ownership mismatch verify reports the error verifyFidOwner
\* attached to the one outcome object: the message is the ownership text,
\* never the fallback "Failed to validate fid owner" and never an error left
\* by the signature step.
C17_OwnershipErrorReported ==
    /\ (Done /\ OracleResolved /\ ~OwnerMatches) =>
           returned = Resolved(Err(ConnectError("unauthorized",
                          OwnershipText(args.message.address, ClaimedFid))))
    /\ (Done /\ ReturnedErr) =>
           returned.value.error.message # <<"Failed to validate fid owner">>
    /\ (Done /\ ReturnedErr /\ SiweSucceeded) =>
           returned.value.error.message # <<"stale">>

C17_Witness ==
    /\ Done /\ OracleResolved /\ ~OwnerMatches
    /\ "error" \in DOMAIN siweSettled.value
    /\ returned.value.error.message = OwnershipText("0xA", 42)

\* C18: validateNonce and validateDomain succeed exactly when the message's
\* field is the very string expected, case included; on success they hand
\* back the message they were given, on failure unauthorized with "Invalid
\* nonce" or "Invalid domain".
C18_ValidatorsExact ==
    pc # "idle" =>
        LET message == args.message
            nonce == validateNonce(message, args.nonce)
            domain == validateDomain(message, args.domain)
        IN  /\ nonce.ok = (message.nonce = args.nonce)
            /\ nonce.ok => nonce.value = message
            /\ ~nonce.ok => nonce.error = ConnectError("unauthorized", <<"Invalid nonce">>)
            /\ domain.ok = (message.domain = args.domain)
            /\ domain.ok => domain.value = message
            /\ ~domain.ok => domain.error = ConnectError("unauthorized", <<"Invalid domain">>)
            /\ (Done /\ StructureValid /\ NonceMatches /\ ~DomainMatches) =>
                   returned = Resolved(Err(domain.error))

C18_Witness ==
    /\ Done /\ StructureValid /\ NonceMatches
    /\ args.message.domain = "Example.com" /\ args.domain = "example.com"
    /\ returned = Resolved(Err(ConnectError("unauthorized", <<"Invalid domain">>)))

\* how far an invocation has come
PcRank ==
    CASE pc = "idle" -> 0
      [] pc = "awaitSiwe" -> 1
      [] pc = "awaitFid" -> 2
      [] pc = "done" -> 3

\* C19: when the promises of message.verify and of getFid each settle at
\* last, every invocation of verify returns; every step takes the invocation
\* forward (no loop, no retry), and an invocation that has not returned is
\* waiting on one of the two promises.
C19_EventuallyReturns ==
    /\ (pc # "idle") ~> Done
    /\ [][PcRank' > PcRank]_vars
    /\ [](pc # "idle" /\ ~Done =>
             \/ pc = "awaitSiwe" /\ siweSettled = Pending
             \/ pc = "awaitFid" /\ oracleSettled = Pending)

C19_Witness ==
    /\ Done /\ returned.settled = "resolved"
    /\ siweSettled # Pending /\ oracleSettled # Pending
    /\ PcRank = 3

====
